---- MODULE Spec2Model ----
(***************************************************************************)
(* Model of the commit-message generator: scripts/analyze.py (diff text    *)
(* -> FileChange records -> type / scope / summary) and scripts/run.py     *)
(* (staged {path,status} records + diff text -> type / scope / subject).   *)
(* Strings are TLA+ strings; a character is a string of length 1.  The     *)
(* alphabet is the code points U+0001..U+00FF, and the character classes   *)
(* below are Python's (Unicode-aware) classes restricted to that range.    *)
(***************************************************************************)
EXTENDS Integers, Sequences, FiniteSets, TLC

VARIABLES
  entry,         \* which program runs: "main" / "api" (analyze.py), "run" (run.py)
  pc,            \* position in the program
  raw,           \* the diff text analyze.py reads
  files,         \* the FileChange records
  signals,       \* detect_type's vote tally
  commit_type, scope, summary, message,
  args,          \* run.py: sys.argv[1:]
  opts,          \* run.py: the locals the option loop sets
  git_codes,     \* run.py: the exit codes of the git processes
  index,         \* run.py: the staged entries of the git index
  staged,        \* run.py: the {status, path} records read from the index
  diff_content,  \* run.py: the staged diff text
  body,          \* run.py: the body of the message
  output         \* run.py: what main() prints

vars == <<entry, pc, raw, files, signals, commit_type, scope, summary, message,
          args, opts, git_codes, index, staged, diff_content, body, output>>

(***************************************************************************)
(* Bounds of the explored inputs.                                          *)
(***************************************************************************)
MaxLines == 3
MaxFiles == 3
MaxStaged == 2
MaxOptStaged == 1
MaxCount == 3
MaxAdded == 1
MaxRemoved == 6

(***************************************************************************)
(* String primitives (Python str methods used by the source).              *)
(***************************************************************************)
Ch(s, i) == SubSeq(s, i, i)

startswith(s, p) == Len(p) <= Len(s) /\ SubSeq(s, 1, Len(p)) = p

endswith(s, p) == Len(p) <= Len(s) /\ SubSeq(s, Len(s) - Len(p) + 1, Len(s)) = p

\* `p in s`, and the start positions of p in s
Occurrences(s, p) == {i \in 1..(Len(s) - Len(p) + 1) : SubSeq(s, i, i + Len(p) - 1) = p}

contains(s, p) == Occurrences(s, p) # {}

SetMax(S) == CHOOSE m \in S : \A x \in S : x <= m

SetMin(S) == CHOOSE m \in S : \A x \in S : m <= x

\* s.rfind(p), 1-based, 0 when absent
rfind(s, p) == IF contains(s, p) THEN SetMax(Occurrences(s, p)) ELSE 0

\* s.find(p), 1-based, 0 when absent
find(s, p) == IF contains(s, p) THEN SetMin(Occurrences(s, p)) ELSE 0

\* the characters str.lower() changes, and what it changes them to
UpperChars == "ABCDEFGHIJKLMNOPQRSTUVWXYZÀÁÂÃÄÅÆÇÈÉÊËÌÍÎÏÐÑÒÓÔÕÖØÙÚÛÜÝÞ"

LowerChars == "abcdefghijklmnopqrstuvwxyzàáâãäåæçèéêëìíîïðñòóôõöøùúûüýþ"

Digits == "0123456789"

\* the characters regex \w matches besides the cased letters and the digits
OtherWordChars == "_ª²³µ¹º¼½¾ßÿ"

UpperSet == {Ch(UpperChars, i) : i \in 1..Len(UpperChars)}

WordCharSet ==
  UpperSet \cup {Ch(LowerChars, i) : i \in 1..Len(LowerChars)}
           \cup {Ch(Digits, i) : i \in 1..Len(Digits)}
           \cup {Ch(OtherWordChars, i) : i \in 1..Len(OtherWordChars)}

LowerCh(c) ==
  IF c \in UpperSet
    THEN Ch(LowerChars, CHOOSE i \in 1..Len(UpperChars) : Ch(UpperChars, i) = c)
    ELSE c

\* s.lower(), computed by halves
RECURSIVE lower(_)
lower(s) ==
  IF Len(s) = 0 THEN ""
  ELSE IF Len(s) = 1 THEN LowerCh(s)
  ELSE lower(SubSeq(s, 1, Len(s) \div 2)) \o lower(SubSeq(s, Len(s) \div 2 + 1, Len(s)))

\* vertical tab, file / group / record / unit separator, next line, no-break space
ControlSpaces == " "

\* regex \s and the characters str.strip() removes
Whitespace ==
  {" ", "\t", "\n", "\r", "\f"} \cup {Ch(ControlSpaces, i) : i \in 1..Len(ControlSpaces)}

\* regex \w
IsWordChar(c) == c \in WordCharSet

\* characters at which str.splitlines() breaks a line
LineBreaks == {"\n", "\r", "\f"} \cup {Ch(ControlSpaces, i) : i \in {1, 2, 3, 4, 6}}

\* the lines of s from position start on, given the break positions not yet
\* passed; "\r\n" is one break
RECURSIVE CutLines(_, _, _)
CutLines(s, start, breaks) ==
  IF breaks = {}
    THEN IF start <= Len(s) THEN <<SubSeq(s, start, Len(s))>> ELSE <<>>
    ELSE LET i == SetMin(breaks)
             crlf == Ch(s, i) = "\r" /\ i < Len(s) /\ Ch(s, i + 1) = "\n"
         IN <<SubSeq(s, start, i - 1)>>
              \o CutLines(s, IF crlf THEN i + 2 ELSE i + 1,
                          breaks \ (IF crlf THEN {i, i + 1} ELSE {i}))

\* str.splitlines(): a final break ends the last line, it opens no empty one
splitlines(s) == CutLines(s, 1, {i \in 1..Len(s) : Ch(s, i) \in LineBreaks})

\* raw.strip() == ""
IsBlank(s) == \A i \in 1..Len(s) : Ch(s, i) \in Whitespace

RECURSIVE join(_, _)
join(sep, xs) ==
  IF xs = <<>> THEN ""
  ELSE IF Len(xs) = 1 THEN xs[1]
  ELSE xs[1] \o sep \o join(sep, Tail(xs))

\* path.split("/")[0]
FirstSegment(path) ==
  IF contains(path, "/") THEN SubSeq(path, 1, find(path, "/") - 1) ELSE path

\* path.split("/")[-1]
LastSegment(path) == SubSeq(path, rfind(path, "/") + 1, Len(path))

\* len(path.split("/")) > 1
HasDir(path) == contains(path, "/")

(***************************************************************************)
(* analyze.py: parse_diff                                                  *)
(***************************************************************************)
HeaderPrefix == "diff --git a/"

\* re.match(r'^diff --git a/(.*) b/(.*)', line): both groups are greedy, so
\* the first group runs to the last " b/" of the line.
HeaderRest(line) == SubSeq(line, Len(HeaderPrefix) + 1, Len(line))

IsHeader(line) == startswith(line, HeaderPrefix) /\ contains(HeaderRest(line), " b/")

HeaderOld(line) == SubSeq(HeaderRest(line), 1, rfind(HeaderRest(line), " b/") - 1)

HeaderNew(line) ==
  SubSeq(HeaderRest(line), rfind(HeaderRest(line), " b/") + 3, Len(HeaderRest(line)))

NewFileChange(line) ==
  [old_path |-> HeaderOld(line), new_path |-> HeaderNew(line),
   is_new |-> FALSE, is_deleted |-> FALSE,
   added_lines |-> <<>>, deleted_lines |-> <<>>]

\* the '+' branch of the line dispatch (analyze.py line 64)
IsAddedLine(line) == startswith(line, "+") /\ ~startswith(line, "+++")

\* the '-' branch of the line dispatch (analyze.py line 66)
IsDeletedLine(line) == startswith(line, "-") /\ ~startswith(line, "---")

\* ParseLine without the `current is None` skip: a line met before any header
\* opens a record of its own
ParseLineNoSkip(fs, line) ==
  IF IsHeader(line) THEN Append(fs, NewFileChange(line))
  ELSE IF fs = <<>> THEN <<NewFileChange(HeaderPrefix \o " b/")>>
  ELSE LET n == Len(fs) IN
    IF startswith(line, "new file mode")
      THEN [fs EXCEPT ![n].is_new = TRUE]
    ELSE IF startswith(line, "deleted file mode")
      THEN [fs EXCEPT ![n].is_deleted = TRUE]
    ELSE IF IsAddedLine(line)
      THEN [fs EXCEPT ![n].added_lines = Append(@, SubSeq(line, 2, Len(line)))]
    ELSE IF IsDeletedLine(line)
      THEN [fs EXCEPT ![n].deleted_lines = Append(@, SubSeq(line, 2, Len(line)))]
    ELSE fs

\* one iteration of the loop body; `current` is the last record of fs
ParseLine(fs, line) ==
  IF IsHeader(line) THEN Append(fs, NewFileChange(line))
  ELSE IF fs = <<>> THEN fs
  ELSE LET n == Len(fs) IN
    IF startswith(line, "new file mode")
      THEN [fs EXCEPT ![n].is_new = TRUE]
    ELSE IF startswith(line, "deleted file mode")
      THEN [fs EXCEPT ![n].is_deleted = TRUE]
    ELSE IF IsAddedLine(line)
      THEN [fs EXCEPT ![n].added_lines = Append(@, SubSeq(line, 2, Len(line)))]
    ELSE IF IsDeletedLine(line)
      THEN [fs EXCEPT ![n].deleted_lines = Append(@, SubSeq(line, 2, Len(line)))]
    ELSE fs

RECURSIVE ParseLines(_, _)
ParseLines(fs, lines) ==
  IF lines = <<>> THEN fs ELSE ParseLines(ParseLine(fs, Head(lines)), Tail(lines))

parse_diff(text) == ParseLines(<<>>, splitlines(text))

(***************************************************************************)
(* analyze.py: file classifier heuristics                                  *)
(***************************************************************************)
\* regex `p$`: at the end of the string, or before a final newline
AtEnd(s, p) == endswith(s, p) \/ endswith(s, p \o "\n")

\* regex `^p$`
Exactly(s, p) == s = p \/ s = p \o "\n"

\* TEST_PATTERNS.search(path), re.IGNORECASE
TestSubstrings == {"test_", "_test.", ".test.", ".spec.", "/tests/", "/test/", "/__tests__/"}

TestMatch(lowered) == \E t \in TestSubstrings : contains(lowered, t)

TEST_PATTERNS(path) == TestMatch(lower(path))

\* DOC_PATTERNS.search(path), re.IGNORECASE
DocPrefixes == {"readme", "docs/", "changelog", "license", "contributing"}

DocMatch(lowered) ==
  \/ AtEnd(lowered, ".md")
  \/ \E d \in DocPrefixes : startswith(lowered, d)

DOC_PATTERNS(path) == DocMatch(lower(path))

\* CHORE_PATTERNS.search(path), case-sensitive
ChoreExact == {".gitignore", "Makefile", "Dockerfile", "Jenkinsfile", "package.json",
               "package-lock.json", "yarn.lock", "Gemfile", "Gemfile.lock", "setup.cfg",
               "setup.py", "pyproject.toml", "Cargo.toml", "Cargo.lock", "go.mod", "go.sum"}

ChorePrefixes == {"docker-compose", ".github/", ".circleci/", ".gitlab-ci", ".eslintrc",
                  ".prettierrc", "tsconfig", ".env"}

CHORE_PATTERNS(path) ==
  \/ \E c \in ChoreExact : Exactly(path, c)
  \/ \E c \in ChorePrefixes : startswith(path, c)

\* WholeWord without re.IGNORECASE
WholeWordCaseSensitive(text, lowered, word) ==
  \E i \in Occurrences(text, word) :
    /\ (i = 1 \/ ~IsWordChar(Ch(text, i - 1)))
    /\ (i + Len(word) > Len(text) \/ ~IsWordChar(Ch(text, i + Len(word))))

\* regex \b(word)\b found in text, re.IGNORECASE
WholeWord(text, lowered, word) ==
  \E i \in Occurrences(lowered, word) :
    /\ (i = 1 \/ ~IsWordChar(Ch(text, i - 1)))
    /\ (i + Len(word) > Len(text) \/ ~IsWordChar(Ch(text, i + Len(word))))

BugWords == {"fix", "bug", "error", "issue", "patch", "crash", "fault", "defect",
             "broken", "wrong", "incorrect"}

BugMatch(text, lowered) == \E w \in BugWords : WholeWord(text, lowered, w)

BUG_KEYWORDS(text) == BugMatch(text, lower(text))

\* re.sub(r'\s+', '', s), computed by halves
RECURSIVE normalize_ws(_)
normalize_ws(s) ==
  IF Len(s) = 0 THEN ""
  ELSE IF Len(s) = 1 THEN (IF s \in Whitespace THEN "" ELSE s)
  ELSE normalize_ws(SubSeq(s, 1, Len(s) \div 2))
         \o normalize_ws(SubSeq(s, Len(s) \div 2 + 1, Len(s)))

Abs(x) == IF x < 0 THEN -x ELSE x

Max2(a, b) == IF a >= b THEN a ELSE b

Min2(a, b) == IF a <= b THEN a ELSE b

is_style_only(f) ==
  LET a == Len(f.added_lines)
      d == Len(f.deleted_lines)
  IN /\ a > 0 /\ d > 0
     /\ ~(Abs(a - d) > Max2(1, a \div 3))
     /\ \A i \in 1..Min2(a, d) :
          normalize_ws(f.added_lines[i]) = normalize_ws(f.deleted_lines[i])

\* min(a, d) / max(a, d) > 0.5 is 2 * min > max on integers
is_refactor(f) ==
  LET a == Len(f.added_lines)
      d == Len(f.deleted_lines)
  IN /\ ~(f.is_new \/ f.is_deleted)
     /\ ~(a = 0 \/ d = 0)
     /\ 2 * Min2(a, d) > Max2(a, d) /\ a >= 3

\* number of leading whitespace characters
RECURSIVE LeadingWs(_)
LeadingWs(s) == IF s # "" /\ Head(s) \in Whitespace THEN 1 + LeadingWs(Tail(s)) ELSE 0

\* number of leading \w characters
RECURSIVE LeadingWord(_)
LeadingWord(s) == IF s # "" /\ IsWordChar(Head(s)) THEN 1 + LeadingWord(Tail(s)) ELSE 0

FuncTokens == {"def ", "function ", "class ", "export "}

\* func_pattern.match(l): ^\s*(def |function |class |const \w+ = |export )
func_pattern(l) ==
  LET t == SubSeq(l, LeadingWs(l) + 1, Len(l))
      u == SubSeq(t, 7, Len(t))
  IN \/ \E k \in FuncTokens : startswith(t, k)
     \/ /\ startswith(t, "const ")
        /\ LeadingWord(u) >= 1
        /\ startswith(SubSeq(u, LeadingWord(u) + 1, Len(u)), " = ")

(***************************************************************************)
(* analyze.py: detect_type (per-file voting)                               *)
(***************************************************************************)
\* the keys of `signals`, in dict insertion order
SignalOrder == <<"feat", "fix", "test", "docs", "chore", "style", "refactor">>

\* FileSignal with the bug-keyword rule tried before the path rules
FileSignalKeywordFirst(f) ==
  IF BUG_KEYWORDS(join("\n", f.added_lines)) THEN "fix"
  ELSE IF TEST_PATTERNS(f.new_path) THEN "test"
  ELSE IF DOC_PATTERNS(f.new_path) THEN "docs"
  ELSE IF CHORE_PATTERNS(f.new_path) THEN "chore"
  ELSE IF f.is_new THEN "feat"
  ELSE IF is_style_only(f) THEN "style"
  ELSE IF is_refactor(f) THEN "refactor"
  ELSE IF \E i \in 1..Len(f.added_lines) : func_pattern(f.added_lines[i]) THEN "feat"
  ELSE "chore"

\* the signal one file increments: the loop body of detect_type
FileSignal(f) ==
  IF TEST_PATTERNS(f.new_path) THEN "test"
  ELSE IF DOC_PATTERNS(f.new_path) THEN "docs"
  ELSE IF CHORE_PATTERNS(f.new_path) THEN "chore"
  ELSE IF f.is_new THEN "feat"
  ELSE IF BUG_KEYWORDS(join("\n", f.added_lines)) THEN "fix"
  ELSE IF is_style_only(f) THEN "style"
  ELSE IF is_refactor(f) THEN "refactor"
  ELSE IF \E i \in 1..Len(f.added_lines) : func_pattern(f.added_lines[i]) THEN "feat"
  ELSE "chore"

\* the signal incremented for each file, in file order
RECURSIVE FileSignals(_)
FileSignals(fs) ==
  IF fs = <<>> THEN <<>> ELSE <<FileSignal(Head(fs))>> \o FileSignals(Tail(fs))

SignalKeys == {SignalOrder[i] : i \in 1..Len(SignalOrder)}

\* `signals` as initialised (lines 119-122)
ZeroSignals == [k \in SignalKeys |-> 0]

\* `signals` after the loop over the files (lines 124-170)
CountSignals(fs) ==
  LET tally(sigs) == [k \in SignalKeys |-> Cardinality({i \in 1..Len(sigs) : sigs[i] = k})]
  IN tally(FileSignals(fs))

\* BestSignal keeping the last key with the maximum instead of the first
BestSignalLast(sig) ==
  SignalOrder[SetMax({i \in 1..Len(SignalOrder) :
     \A j \in 1..Len(SignalOrder) : sig[SignalOrder[j]] <= sig[SignalOrder[i]]})]

\* max(signals, key=...): the first key, in insertion order, with the maximum
BestSignal(sig) ==
  SignalOrder[SetMin({i \in 1..Len(SignalOrder) :
     \A j \in 1..Len(SignalOrder) : sig[SignalOrder[j]] <= sig[SignalOrder[i]]})]

\* lines 172-176
PickType(sig) == IF sig[BestSignal(sig)] = 0 THEN "chore" ELSE BestSignal(sig)

detect_type(fs) == IF fs = <<>> THEN "chore" ELSE PickType(CountSignals(fs))

(***************************************************************************)
(* analyze.py: detect_scope                                                *)
(***************************************************************************)
\* os.path.splitext(p)[0]: the extension starts at the last dot of the last
\* component, unless only dots precede it there
splitext_root(p) ==
  LET sepIndex == rfind(p, "/")
      dotIndex == rfind(p, ".")
  IN IF dotIndex > sepIndex
        /\ \E k \in (sepIndex + 1)..(dotIndex - 1) : Ch(p, k) # "."
       THEN SubSeq(p, 1, dotIndex - 1)
       ELSE p

\* Candidate without os.path.splitext on a root-level file
CandidateKeepExt(path) == FirstSegment(path)

\* the scope candidate of one path: parts[0], or the stem of a root-level file
Candidate(path) ==
  IF HasDir(path) THEN FirstSegment(path) ELSE splitext_root(FirstSegment(path))

\* the keys of change_counts, in insertion order (first occurrence of a path)
RECURSIVE CountKeys(_, _)
CountKeys(fs, acc) ==
  IF fs = <<>> THEN acc
  ELSE CountKeys(Tail(fs),
         IF \E i \in 1..Len(acc) : acc[i] = Head(fs).new_path
           THEN acc ELSE Append(acc, Head(fs).new_path))

\* change_counts[path]: the count of the last record with that path
ChangeCount(fs, path) ==
  LET last == SetMax({i \in 1..Len(fs) : fs[i].new_path = path})
  IN Len(fs[last].added_lines) + Len(fs[last].deleted_lines)

\* the values of change_counts, in key order
ChangeCounts(fs, keys) == [i \in 1..Len(keys) |-> ChangeCount(fs, keys[i])]

\* max(change_counts, key=change_counts.get): the first key with the largest count
MostChanged(keys, counts) ==
  keys[SetMin({i \in 1..Len(keys) : \A j \in 1..Len(keys) : counts[j] <= counts[i]})]

\* detect_scope after change_counts is built (lines 196-225)
ScopeOf(fs, keys) ==
  LET dirs == {Candidate(keys[i]) : i \in 1..Len(keys)}
  IN IF Len(keys) = 1 THEN lower(Candidate(keys[1]))
     ELSE IF Cardinality(dirs) = 1 THEN lower(CHOOSE d \in dirs : TRUE)
     ELSE lower(Candidate(MostChanged(keys, ChangeCounts(fs, keys))))

detect_scope(fs) == IF fs = <<>> THEN "" ELSE ScopeOf(fs, CountKeys(fs, <<>>))

(***************************************************************************)
(* analyze.py: detect_summary                                              *)
(***************************************************************************)
\* f"{verb} {n} file{'s' if n > 1 else ''}"
Clause(verb, n) == verb \o " " \o ToString(n) \o " file" \o (IF n > 1 THEN "s" ELSE "")

RECURSIVE NonEmpty(_)
NonEmpty(xs) ==
  IF xs = <<>> THEN <<>>
  ELSE IF Head(xs) = "" THEN NonEmpty(Tail(xs))
  ELSE <<Head(xs)>> \o NonEmpty(Tail(xs))

detect_summary(fs, ctype) ==
  IF fs = <<>> THEN "empty change"
  ELSE IF Len(fs) = 1 THEN
    LET f == fs[1]
        name == LastSegment(f.new_path)
    IN IF f.is_new THEN "add " \o name
       ELSE IF f.is_deleted THEN "remove " \o name
       ELSE IF ctype = "fix" THEN "fix issue in " \o name
       ELSE IF ctype = "refactor" THEN "refactor " \o name
       ELSE IF ctype = "style" THEN "format " \o name
       ELSE IF ctype = "docs" THEN "update " \o name
       ELSE IF ctype = "test" THEN "update tests in " \o name
       ELSE "update " \o name
  ELSE
    LET new_count == Cardinality({i \in 1..Len(fs) : fs[i].is_new})
        del_count == Cardinality({i \in 1..Len(fs) : fs[i].is_deleted})
        mod_count == Len(fs) - new_count - del_count
        parts == NonEmpty(<<IF new_count # 0 THEN Clause("add", new_count) ELSE "",
                            IF del_count # 0 THEN Clause("remove", del_count) ELSE "",
                            IF mod_count # 0 THEN Clause("update", mod_count) ELSE "">>)
    IN IF parts # <<>> THEN join(", ", parts)
       ELSE "update " \o ToString(Len(fs)) \o " files"

\* main(): f"{commit_type}({scope}): {summary}" or f"{commit_type}: {summary}"
FormatMessage(ctype, sc, subj) ==
  IF sc # "" THEN ctype \o "(" \o sc \o "): " \o subj ELSE ctype \o ": " \o subj

(***************************************************************************)
(* run.py: path helpers (pathlib.PurePosixPath)                            *)
(***************************************************************************)
RECURSIVE SplitSlash(_)
SplitSlash(p) ==
  IF contains(p, "/")
    THEN <<SubSeq(p, 1, find(p, "/") - 1)>> \o SplitSlash(SubSeq(p, find(p, "/") + 1, Len(p)))
    ELSE <<p>>

RECURSIVE DropEmptyAndDot(_)
DropEmptyAndDot(xs) ==
  IF xs = <<>> THEN <<>>
  ELSE IF Head(xs) \in {"", "."} THEN DropEmptyAndDot(Tail(xs))
  ELSE <<Head(xs)>> \o DropEmptyAndDot(Tail(xs))

\* Path(p).parts
PathParts(p) ==
  LET root == IF startswith(p, "//") /\ ~startswith(p, "///") THEN <<"//">>
              ELSE IF startswith(p, "/") THEN <<"/">> ELSE <<>>
  IN root \o DropEmptyAndDot(SplitSlash(p))

\* Path(p).name
PathName(p) ==
  LET comps == DropEmptyAndDot(SplitSlash(p))
  IN IF comps = <<>> THEN "" ELSE comps[Len(comps)]

\* Path(p).suffix
PathSuffix(p) ==
  LET name == PathName(p)
      j == rfind(name, ".")
  IN IF 1 < j /\ j < Len(name) THEN SubSeq(name, j, Len(name)) ELSE ""

(***************************************************************************)
(* run.py: detect_type (whole-diff heuristic)                              *)
(***************************************************************************)
RUN_DOC_PATTERNS == {".md", ".txt", ".rst", ".adoc"}

CONFIG_PATTERNS == {".json", ".yml", ".yaml", ".toml", ".ini", ".cfg", ".conf", ".env"}

RUN_TEST_PATTERNS == {"test", "spec", "__tests__", "tests"}

FIX_KEYWORDS == {"fix", "bug", "error", "patch", "issue", "crash", "broken"}

PERF_KEYWORDS == {"perf", "optimize", "cache", "speed", "fast", "slow", "memory"}

\* diff_lower.count(p) for a pattern that cannot overlap itself
count(text, p) == Cardinality(Occurrences(text, p))

\* added = count("\n+") - count("\n+++")
AddedCount(diff_lower) == count(diff_lower, "\n+") - count(diff_lower, "\n+++")

\* removed = count("\n-") - count("\n---")
RemovedCount(diff_lower) == count(diff_lower, "\n-") - count(diff_lower, "\n---")

\* RefactorOrFeat comparing the margin removed - added with 5
RefactorOrFeatByMargin(diff_lower) ==
  IF RemovedCount(diff_lower) - AddedCount(diff_lower) > 5 THEN "refactor" ELSE "feat"

\* lines 73-79: the deletion-heavy rule and the default
RefactorOrFeat(diff_lower) ==
  IF RemovedCount(diff_lower) > AddedCount(diff_lower) /\ RemovedCount(diff_lower) > 5
    THEN "refactor" ELSE "feat"

\* lines 65-79: the rules that read diff_lower
ContentType(diff_lower) ==
  IF \E kw \in FIX_KEYWORDS : contains(diff_lower, kw) THEN "fix"
  ELSE IF \E kw \in PERF_KEYWORDS : contains(diff_lower, kw) THEN "perf"
  ELSE RefactorOrFeat(diff_lower)

run_detect_type(fs, diff) ==
  IF fs = <<>> THEN "chore"
  ELSE IF \A i \in 1..Len(fs) : fs[i].status = "A" THEN "feat"
  ELSE IF \A i \in 1..Len(fs) : \E tp \in RUN_TEST_PATTERNS : contains(lower(fs[i].path), tp)
    THEN "test"
  ELSE IF \A i \in 1..Len(fs) : lower(PathSuffix(fs[i].path)) \in RUN_DOC_PATTERNS THEN "docs"
  ELSE IF \A i \in 1..Len(fs) : lower(PathSuffix(fs[i].path)) \in CONFIG_PATTERNS THEN "chore"
  ELSE ContentType(lower(diff))

(***************************************************************************)
(* run.py: detect_scope                                                    *)
(***************************************************************************)
ConventionalRoots == {"src", "lib", "app", "pkg"}

\* the conditional expression of line 91, for a path with more than one part
ScopeDir(parts) ==
  IF parts[1] \in ConventionalRoots /\ Len(parts) > 2 THEN parts[2]
  ELSE IF parts[1] \notin ConventionalRoots THEN parts[1]
  ELSE IF Len(parts) > 1 THEN parts[2] ELSE ""

RECURSIVE ScopeDirs(_)
ScopeDirs(fs) ==
  IF fs = <<>> THEN <<>>
  ELSE (IF Len(PathParts(Head(fs).path)) > 1
          THEN <<ScopeDir(PathParts(Head(fs).path))>> ELSE <<>>) \o ScopeDirs(Tail(fs))

\* the keys of dir_counts in insertion order
RECURSIVE DirKeys(_, _)
DirKeys(dirs, acc) ==
  IF dirs = <<>> THEN acc
  ELSE DirKeys(Tail(dirs),
         IF Head(dirs) = "" \/ \E i \in 1..Len(acc) : acc[i] = Head(dirs)
           THEN acc ELSE Append(acc, Head(dirs)))

run_detect_scope(fs) ==
  IF fs = <<>> THEN ""
  ELSE LET dirs == ScopeDirs(fs)
           keys == DirKeys(dirs, <<>>)
           n(d) == Cardinality({i \in 1..Len(dirs) : dirs[i] = d})
       IN IF dirs = <<>> \/ \A i \in 1..Len(dirs) : dirs[i] = "" THEN ""
          ELSE IF keys = <<>> THEN ""
          ELSE keys[SetMin({i \in 1..Len(keys) :
                 \A j \in 1..Len(keys) : n(keys[j]) <= n(keys[i])})]

(***************************************************************************)
(* run.py: generate_subject                                                *)
(***************************************************************************)
\* lines 129-139: the clauses of a multi-file change that is not docs/test
StatusClauses(fs) ==
  LET added == Cardinality({i \in 1..Len(fs) : fs[i].status = "A"})
      modified == Cardinality({i \in 1..Len(fs) : fs[i].status = "M"})
      deleted == Cardinality({i \in 1..Len(fs) : fs[i].status = "D"})
      parts == NonEmpty(<<IF added # 0 THEN Clause("add", added) ELSE "",
                          IF modified # 0 THEN Clause("update", modified) ELSE "",
                          IF deleted # 0 THEN Clause("remove", deleted) ELSE "">>)
  IN IF parts # <<>> THEN join(", ", parts)
     ELSE "update " \o ToString(Len(fs)) \o " files"

generate_subject(fs, ctype) ==
  IF Len(fs) = 1 THEN
    LET name == PathName(fs[1].path)
    IN IF fs[1].status = "A" THEN "add " \o name
       ELSE IF fs[1].status = "D" THEN "remove " \o name
       ELSE "update " \o name
  ELSE IF ctype = "docs" THEN
    LET names == [i \in 1..Min2(3, Len(fs)) |-> PathName(fs[i].path)]
    IN IF Len(names) <= 2 THEN "update " \o join(" and ", names)
       ELSE "update " \o ToString(Len(fs)) \o " doc files"
  ELSE IF ctype = "test" THEN "update " \o ToString(Len(fs)) \o " test files"
  ELSE StatusClauses(fs)

\* main(): f"{commit_type}{scope_str}: {subject}"
RunFormatMessage(ctype, sc, subj) ==
  ctype \o (IF sc # "" THEN "(" \o sc \o ")" ELSE "") \o ": " \o subj

(***************************************************************************)
(* Inputs                                                                  *)
(***************************************************************************)
SeqsUpTo(S, n) == UNION {[1..k -> S] : k \in 0..n}

\* lines a diff text is assembled from
RawLinePool ==
  {"diff --git a/README.md b/README.md",
   "diff --git a/src/a.c b/src/a.c",
   "new file mode 100644",
   "deleted file mode 100644",
   "+++ b/src/a.c",
   "+++i;",
   "+fix it",
   "-old"}

RawTexts == {join("\n", ls) : ls \in SeqsUpTo(RawLinePool, MaxLines)}

FC(path, isNew, isDeleted, added, deleted) ==
  [old_path |-> path, new_path |-> path, is_new |-> isNew, is_deleted |-> isDeleted,
   added_lines |-> added, deleted_lines |-> deleted]

\* FileChange records handed to the detectors directly
FilePool ==
  {FC("tests/test_a.py", FALSE, FALSE, <<"assert x">>, <<>>),
   FC("README.md", FALSE, FALSE, <<"fix typo">>, <<"typo">>),
   FC("package.json", FALSE, FALSE, <<"v: 2">>, <<"v: 1">>),
   FC("src/login.ts", TRUE, FALSE, <<"export x", "a", "b">>, <<>>),
   FC("src/a.py", FALSE, FALSE, <<"a Fix, at last">>, <<"x">>),
   FC("Lib/b.py", FALSE, FALSE, <<"x = 1">>, <<"x=1">>),
   FC("Lib/c.py", FALSE, FALSE, <<"a", "prefixed", "c">>, <<"d", "e">>),
   FC("api/d.py", FALSE, FALSE, <<" def f():">>, <<>>),
   FC("src/a.py", FALSE, TRUE, <<>>, <<"a", "b", "c", "d", "e", "prefix">>)}

\* nNew new files, then nDel deleted files, then nMod modified files
CountedFiles(nNew, nDel, nMod) ==
  [i \in 1..(nNew + nDel + nMod) |->
     FC("src/f" \o ToString(i) \o ".py", i <= nNew, nNew < i /\ i <= nNew + nDel,
        IF i <= nNew \/ i > nNew + nDel THEN <<"x">> ELSE <<>>,
        IF i > nNew THEN <<"y">> ELSE <<>>)]

FileInputs ==
  SeqsUpTo(FilePool, MaxFiles)
    \cup {CountedFiles(a, d, m) : a \in 0..MaxCount, d \in 0..MaxCount, m \in 0..MaxCount}

ST(status, path) == [status |-> status, path |-> path]

(***************************************************************************)
(* run.py: the git processes (git, get_staged_files, get_diff_content)     *)
(***************************************************************************)
\* an entry of the git index that differs from HEAD: `del` lines "y" in HEAD,
\* `add` lines `word` in the index; a rename moves the file unchanged to `to`
IX(status, path, to, del, add, word) ==
  [status |-> status, path |-> path, to |-> to, del |-> del, add |-> add, word |-> word]

\* abbreviated blob ids `git diff --cached` prints on the index line, by the
\* word and the number of lines of the file
BlobIds(word) ==
  IF word = "y" THEN
    <<"e69de29", "975fbec", "9b48ee4", "a00af2c", "7c34ebc", "57dc54c",
      "b789118", "304fc14", "f03b582", "3b26878">>
  ELSE IF word = "x" THEN
    <<"e69de29", "587be6b", "560e017", "f3eae69", "789582c">>
  ELSE IF word = "fix" THEN
    <<"e69de29", "a609090", "b58a7e1", "a33c2ea", "461117c">>
  ELSE IF word = "fix\r" THEN
    <<"e69de29", "0ddfaa7", "4474d12", "df22aaf", "851d9af">>
  ELSE
    <<"e69de29", "06cf653", "3323b66", "c011f1c", "f72a5c1">>

BlobId(word, n) == BlobIds(word)[n + 1]

\* the range of a hunk header for n lines starting at line 1
HunkRange(n) == IF n = 0 THEN "0,0" ELSE IF n = 1 THEN "1" ELSE "1," \o ToString(n)

OldLines(e) == IF e.status \in {"M", "D"} THEN e.del ELSE 0

NewLines(e) == IF e.status \in {"M", "A"} THEN e.add ELSE 0

\* the hunk of an entry: every old line removed, every new line added
Hunk(e) ==
  IF OldLines(e) = 0 /\ NewLines(e) = 0 THEN <<>>
  ELSE <<"--- " \o (IF e.status = "A" THEN "/dev/null" ELSE "a/" \o e.path),
         "+++ " \o (IF e.status = "D" THEN "/dev/null" ELSE "b/" \o e.path),
         "@@ -" \o HunkRange(OldLines(e)) \o " +" \o HunkRange(NewLines(e)) \o " @@">>
       \o [i \in 1..OldLines(e) |-> "-y"]
       \o [i \in 1..NewLines(e) |-> "+" \o e.word]

\* the lines `git diff --cached` prints for one entry
FileBlock(e) ==
  IF e.status = "R"
    THEN <<"diff --git a/" \o e.path \o " b/" \o e.to, "similarity index 100%",
           "rename from " \o e.path, "rename to " \o e.to>>
    ELSE <<"diff --git a/" \o e.path \o " b/" \o e.path>>
         \o (IF e.status = "A" THEN <<"new file mode 100644">>
             ELSE IF e.status = "D" THEN <<"deleted file mode 100644">> ELSE <<>>)
         \o <<"index "
                \o (IF e.status = "A" THEN "0000000" ELSE BlobId("y", e.del)) \o ".."
                \o (IF e.status = "D" THEN "0000000" ELSE BlobId(e.word, e.add))
                \o (IF e.status = "M" THEN " 100644" ELSE "")>>
         \o Hunk(e)

RECURSIVE FileBlocks(_)
FileBlocks(ix) == IF ix = <<>> THEN <<>> ELSE FileBlock(Head(ix)) \o FileBlocks(Tail(ix))

\* every line followed by a newline
RECURSIVE Unlines(_)
Unlines(ls) == IF ls = <<>> THEN "" ELSE Head(ls) \o "\n" \o Unlines(Tail(ls))

\* stdout of `git diff --cached`
GitDiff(ix) == Unlines(FileBlocks(ix))

\* stdout of `git diff --cached --name-status`
NameStatus(ix) ==
  Unlines([i \in 1..Len(ix) |->
             IF ix[i].status = "R" THEN "R100\t" \o ix[i].path \o "\t" \o ix[i].to
             ELSE ix[i].status \o "\t" \o ix[i].path])

\* a git process that fails prints nothing on stdout
Stdout(code, text) == IF code = 0 THEN text ELSE ""

RECURSIVE lstrip(_)
lstrip(s) == IF s # "" /\ Head(s) \in Whitespace THEN lstrip(Tail(s)) ELSE s

RECURSIVE rstrip(_)
rstrip(s) ==
  IF s # "" /\ Ch(s, Len(s)) \in Whitespace THEN rstrip(SubSeq(s, 1, Len(s) - 1)) ELSE s

strip(s) == rstrip(lstrip(s))

\* the text subprocess.run(..., text=True) decodes from what the process
\* printed: "\r\n" and a lone "\r" are read as "\n"
RECURSIVE universal_newlines(_)
universal_newlines(s) ==
  IF ~contains(s, "\r") THEN s
  ELSE LET i == find(s, "\r")
           crlf == i < Len(s) /\ Ch(s, i + 1) = "\n"
       IN SubSeq(s, 1, i - 1) \o "\n"
            \o universal_newlines(SubSeq(s, IF crlf THEN i + 2 ELSE i + 1, Len(s)))

\* git(): (result.returncode, result.stdout.strip()) of a process that exits
\* with `code` and prints `stdout`
git(code, stdout) == [code |-> code, output |-> strip(universal_newlines(stdout))]

\* s.split(sep)
RECURSIVE Split(_, _)
Split(s, sep) ==
  IF contains(s, sep)
    THEN <<SubSeq(s, 1, find(s, sep) - 1)>>
           \o Split(SubSeq(s, find(s, sep) + Len(sep), Len(s)), sep)
    ELSE <<s>>

\* s.split(sep, 1)
SplitOnce(s, sep) ==
  IF contains(s, sep)
    THEN <<SubSeq(s, 1, find(s, sep) - 1), SubSeq(s, find(s, sep) + Len(sep), Len(s))>>
    ELSE <<s>>

\* the loop of get_staged_files; parts[0][0] is the status letter (git prints
\* one before the tab; on an empty first field the code raises IndexError)
RECURSIVE StagedOf(_)
StagedOf(lines) ==
  IF lines = <<>> THEN <<>>
  ELSE LET parts == SplitOnce(Head(lines), "\t")
       IN (IF IsBlank(Head(lines)) \/ Len(parts) # 2 THEN <<>>
           ELSE <<ST(Ch(parts[1], 1), parts[2])>>) \o StagedOf(Tail(lines))

\* get_staged_files, given what git() returned
get_staged_files(res) ==
  IF res.code # 0 \/ res.output = "" THEN <<>> ELSE StagedOf(Split(res.output, "\n"))

\* get_diff_content, given what git() returned
get_diff_content(res) == IF res.code = 0 THEN res.output ELSE ""

(***************************************************************************)
(* run.py: main (options, body, printed result)                            *)
(***************************************************************************)
\* an option that is None
NoOption == [given |-> FALSE, value |-> ""]

Option(v) == [given |-> TRUE, value |-> v]

\* lines 167-172
DefaultOpts ==
  [repo |-> ".", override_scope |-> NoOption, override_type |-> NoOption,
   include_body |-> FALSE, dry_run |-> FALSE, fmt |-> "text"]

\* the option loop, lines 174-189, on the arguments not yet consumed
RECURSIVE ParseArgs(_, _)
ParseArgs(rest, o) ==
  IF rest = <<>> THEN o
  ELSE LET rest2 == SubSeq(rest, 3, Len(rest)) IN
    IF rest[1] = "--repo" /\ Len(rest) >= 2
      THEN ParseArgs(rest2, [o EXCEPT !.repo = rest[2]])
    ELSE IF rest[1] = "--scope" /\ Len(rest) >= 2
      THEN ParseArgs(rest2, [o EXCEPT !.override_scope = Option(rest[2])])
    ELSE IF rest[1] = "--type" /\ Len(rest) >= 2
      THEN ParseArgs(rest2, [o EXCEPT !.override_type = Option(rest[2])])
    ELSE IF rest[1] = "--body"
      THEN ParseArgs(Tail(rest), [o EXCEPT !.include_body = TRUE])
    ELSE IF rest[1] = "--dry-run"
      THEN ParseArgs(Tail(rest), [o EXCEPT !.dry_run = TRUE])
    ELSE IF rest[1] = "--format" /\ Len(rest) >= 2
      THEN ParseArgs(rest2, [o EXCEPT !.fmt = rest[2]])
    ELSE ParseArgs(Tail(rest), o)

\* "--help" in args or "-h" in args
WantsHelp(argv) == \E i \in 1..Len(argv) : argv[i] \in {"--help", "-h"}

\* override_type or detect_type(files, diff_content)
ChosenType(o, fs, diff) ==
  IF o.override_type.value # "" THEN o.override_type.value ELSE run_detect_type(fs, diff)

\* override_scope if override_scope is not None else detect_scope(files)
ChosenScope(o, fs) ==
  IF o.override_scope.given THEN o.override_scope.value ELSE run_detect_scope(fs)

StatusWord(status) ==
  IF status = "A" THEN "added" ELSE IF status = "M" THEN "modified"
  ELSE IF status = "D" THEN "deleted" ELSE IF status = "R" THEN "renamed" ELSE "changed"

generate_body(fs) ==
  join("\n", <<"Files changed:", "">>
               \o [i \in 1..Len(fs) |->
                     "- " \o fs[i].path \o " (" \o StatusWord(fs[i].status) \o ")"])

\* the characters json.dumps writes as \u00XX, and their codes
EscapedChars == " ¡¢£¤¥¦§¨©ª«¬­®¯°±²³´µ¶·¸¹º»¼½¾¿ÀÁÂÃÄÅÆÇÈÉÊËÌÍÎÏÐÑÒÓÔÕÖ×ØÙÚÛÜÝÞßàáâãäåæçèéêëìíîïðñòóôõö÷øùúûüýþÿ"

EscapedCodes ==
  <<"01", "02", "03", "04", "05", "06", "07", "0b", "0e", "0f", "10", "11",
    "12", "13", "14", "15", "16", "17", "18", "19", "1a", "1b", "1c", "1d",
    "1e", "1f", "7f", "80", "81", "82", "83", "84", "85", "86", "87", "88",
    "89", "8a", "8b", "8c", "8d", "8e", "8f", "90", "91", "92", "93", "94",
    "95", "96", "97", "98", "99", "9a", "9b", "9c", "9d", "9e", "9f", "a0",
    "a1", "a2", "a3", "a4", "a5", "a6", "a7", "a8", "a9", "aa", "ab", "ac",
    "ad", "ae", "af", "b0", "b1", "b2", "b3", "b4", "b5", "b6", "b7", "b8",
    "b9", "ba", "bb", "bc", "bd", "be", "bf", "c0", "c1", "c2", "c3", "c4",
    "c5", "c6", "c7", "c8", "c9", "ca", "cb", "cc", "cd", "ce", "cf", "d0",
    "d1", "d2", "d3", "d4", "d5", "d6", "d7", "d8", "d9", "da", "db", "dc",
    "dd", "de", "df", "e0", "e1", "e2", "e3", "e4", "e5", "e6", "e7", "e8",
    "e9", "ea", "eb", "ec", "ed", "ee", "ef", "f0", "f1", "f2", "f3", "f4",
    "f5", "f6", "f7", "f8", "f9", "fa", "fb", "fc", "fd", "fe", "ff">>

EscapedSet == {Ch(EscapedChars, i) : i \in 1..Len(EscapedChars)}

\* the backspace character
Backspace == ""

JsonChar(c) ==
  IF c = "\"" THEN "\\\"" ELSE IF c = "\\" THEN "\\\\"
  ELSE IF c = "\n" THEN "\\n" ELSE IF c = "\r" THEN "\\r" ELSE IF c = "\t" THEN "\\t"
  ELSE IF c = "\f" THEN "\\f" ELSE IF c = Backspace THEN "\\b"
  ELSE IF c \in EscapedSet
    THEN "\\u00" \o EscapedCodes[CHOOSE i \in 1..Len(EscapedChars) : Ch(EscapedChars, i) = c]
  ELSE c

RECURSIVE JsonEscape(_)
JsonEscape(s) ==
  IF Len(s) = 0 THEN ""
  ELSE IF Len(s) = 1 THEN JsonChar(s)
  ELSE JsonEscape(SubSeq(s, 1, Len(s) \div 2))
         \o JsonEscape(SubSeq(s, Len(s) \div 2 + 1, Len(s)))

\* json.dumps of a str
JsonString(s) == "\"" \o JsonEscape(s) \o "\""

\* what main() prints for --help, lines 153-164
Usage ==
  Unlines(<<"Usage: run.py [OPTIONS]",
            "",
            "Generate a conventional commit message from staged git changes.",
            "",
            "Options:",
            "  --repo PATH     Path to git repository (default: .)",
            "  --scope SCOPE   Override auto-detected scope",
            "  --type TYPE     Override auto-detected type",
            "  --body          Include body with file change summary",
            "  --dry-run       Show message without committing",
            "  --format FMT    Output: text or json (default: text)",
            "  -h, --help      Show this help">>)

\* what main() prints, lines 214-227
Printed(fmt, ctype, sc, subj, bd, msg) ==
  IF fmt = "json"
    THEN "{\n  \"type\": " \o JsonString(ctype)
           \o ",\n  \"scope\": " \o JsonString(sc)
           \o ",\n  \"subject\": " \o JsonString(subj)
           \o ",\n  \"body\": " \o JsonString(bd)
           \o ",\n  \"message\": "
           \o JsonString(msg \o (IF bd # "" THEN "\n\n" \o bd ELSE ""))
           \o "\n}\n"
    ELSE msg \o "\n" \o (IF bd # "" THEN "\n" \o bd \o "\n" ELSE "")

(***************************************************************************)
(* Inputs of run.py                                                        *)
(***************************************************************************)
\* index entries, in the order git lists them (by path)
IndexPool ==
  <<IX("M", "README.md", "", 1, 1, "x"),
    IX("M", "config.yml", "", 1, 1, "x"),
    IX("M", "src/auth/a.py", "", 1, 1, "x"),
    IX("A", "src/auth/login.py", "", 0, 1, "x"),
    IX("R", "tests/test_a.py", "tests/test_b.py", 0, 0, "x")>>

\* the entries of IndexPool at the positions S, in pool order
RECURSIVE Select(_, _)
Select(S, i) ==
  IF i > Len(IndexPool) THEN <<>>
  ELSE (IF i \in S THEN <<IndexPool[i]>> ELSE <<>>) \o Select(S, i + 1)

PoolIndexes(n) ==
  {Select(S, 1) : S \in {T \in SUBSET (1..Len(IndexPool)) : Cardinality(T) <= n}}

\* content words of the added lines; "fix\r" is a line of a file with CRLF
\* line endings, which git prints as it is stored
HunkWords == {"x", "fix", "cache", "fix\r"}

\* the index ix with the content of its first entry replaced: nDel old lines
\* and nAdd new lines `word` (a modified file changes at least one line)
WithHunk(ix, nAdd, nDel, word) ==
  IF ix = <<>> THEN ix
  ELSE IF ix[1].status = "M" /\ nAdd + nDel > 0
    THEN [ix EXCEPT ![1].add = nAdd, ![1].del = nDel, ![1].word = word]
  ELSE IF ix[1].status = "A" THEN [ix EXCEPT ![1].add = nAdd, ![1].word = word]
  ELSE ix

TwoDigits(i) == (IF i < 10 THEN "0" ELSE "") \o ToString(i)

\* nA new files, then nD deleted files, then nM modified files, one line each
CountedIndex(nA, nD, nM) ==
  [i \in 1..(nA + nD + nM) |->
     IX(IF i <= nA THEN "A" ELSE IF i <= nA + nD THEN "D" ELSE "M",
        "src/f" \o TwoDigits(i) \o ".py", "", 1, 1, "x")]

CountedIndexes ==
  {CountedIndex(a, d, m) : a \in 0..MaxCount, d \in 0..MaxCount, m \in 0..MaxCount}

\* the file another process stages while main() runs
ConcurrentEntry == IX("A", "web/new.js", "", 0, 1, "fix")

\* sys.argv[1:]
ArgInputs ==
  {<<>>, <<"--type", "fix">>, <<"--type", "">>, <<"--type">>, <<"--scope", "core">>,
   <<"--scope", "">>, <<"--body">>, <<"--format", "json">>,
   <<"--body", "--format", "json", "--scope", "a\"b">>,
   <<"--repo", "nowhere", "--dry-run">>, <<"--scope", "--help">>, <<"-h">>}

\* exit codes of the three git processes (128: not a git repository)
GitCodes(revParse, nameStatus, diff) ==
  [rev_parse |-> revParse, name_status |-> nameStatus, diff |-> diff]

GitCodeInputs ==
  {GitCodes(0, 0, 0), GitCodes(128, 128, 128), GitCodes(0, 128, 0), GitCodes(0, 0, 128)}

(***************************************************************************)
(* State machine                                                           *)
(***************************************************************************)
\* analyze.py main() on a diff text
InitMain ==
  /\ entry = "main" /\ pc = "read"
  /\ raw \in RawTexts
  /\ files = <<>>

\* the analyze.py detectors on a given FileChange sequence
InitApi ==
  /\ entry = "api" /\ pc = "parsed"
  /\ raw = ""
  /\ files \in FileInputs

\* analyze.py runs no git process and takes no run.py option
NoGit == args = <<>> /\ git_codes = GitCodes(0, 0, 0) /\ index = <<>>

\* run.py main() with its arguments, in a repository with a staged index
InitRun ==
  /\ entry = "run" /\ pc = "start"
  /\ raw = "" /\ files = <<>>
  /\ \/ /\ args = <<>> /\ git_codes = GitCodes(0, 0, 0)
        /\ \E ix \in PoolIndexes(MaxStaged), a \in 0..MaxAdded, d \in 0..MaxRemoved,
              w \in HunkWords : index = WithHunk(ix, a, d, w)
     \/ /\ args = <<>> /\ git_codes = GitCodes(0, 0, 0)
        /\ index \in CountedIndexes
     \/ /\ args \in ArgInputs /\ git_codes \in GitCodeInputs
        /\ index \in PoolIndexes(MaxOptStaged)

Init ==
  /\ \/ InitMain /\ NoGit
     \/ InitApi /\ NoGit
     \/ InitRun
  /\ opts = DefaultOpts /\ staged = <<>> /\ diff_content = ""
  /\ signals = ZeroSignals
  /\ commit_type = "" /\ scope = "" /\ summary = "" /\ message = ""
  /\ body = "" /\ output = ""

\* the state of run.py, which the analyze.py steps leave alone
runVars == <<args, opts, git_codes, index, staged, diff_content, body, output>>

\* the state of analyze.py, which the run.py steps leave alone
analyzeVars == <<raw, files, signals>>

\* analyze.py main(), lines 280-282
EmptyDiffError ==
  /\ entry = "main" /\ pc = "read" /\ IsBlank(raw)
  /\ pc' = "exit1"
  /\ UNCHANGED <<entry, raw, files, signals, commit_type, scope, summary, message, runVars>>

\* analyze.py main(), line 284
ParseDiff ==
  /\ entry = "main" /\ pc = "read" /\ ~IsBlank(raw)
  /\ files' = parse_diff(raw)
  /\ pc' = "parsed"
  /\ UNCHANGED <<entry, raw, signals, commit_type, scope, summary, message, runVars>>

\* analyze.py main(), lines 286-288
NoFilesError ==
  /\ entry = "main" /\ pc = "parsed" /\ files = <<>>
  /\ pc' = "exit1"
  /\ UNCHANGED <<entry, raw, files, signals, commit_type, scope, summary, message, runVars>>

DetectType ==
  /\ pc = "parsed" /\ (entry = "api" \/ (entry = "main" /\ files # <<>>))
  /\ signals' = IF files = <<>> THEN signals ELSE CountSignals(files)
  /\ commit_type' = detect_type(files)
  /\ pc' = "typed"
  /\ UNCHANGED <<entry, raw, files, scope, summary, message, runVars>>

DetectScope ==
  /\ entry \in {"main", "api"} /\ pc = "typed"
  /\ scope' = detect_scope(files)
  /\ pc' = "scoped"
  /\ UNCHANGED <<entry, raw, files, signals, commit_type, summary, message, runVars>>

\* detect_summary and the message assembled from the three results
DetectSummary ==
  /\ entry \in {"main", "api"} /\ pc = "scoped"
  /\ summary' = detect_summary(files, commit_type)
  /\ message' = FormatMessage(commit_type, scope, summary')
  /\ pc' = "done"
  /\ UNCHANGED <<entry, raw, files, signals, commit_type, scope, runVars>>

\* run.py main(), lines 151-165
ShowHelp ==
  /\ entry = "run" /\ pc = "start" /\ WantsHelp(args)
  /\ output' = Usage
  /\ pc' = "exit0"
  /\ UNCHANGED <<entry, analyzeVars, commit_type, scope, summary, message,
                 args, opts, git_codes, index, staged, diff_content, body>>

\* run.py main(), lines 167-189
ParseArguments ==
  /\ entry = "run" /\ pc = "start" /\ ~WantsHelp(args)
  /\ opts' = ParseArgs(args, DefaultOpts)
  /\ pc' = "args"
  /\ UNCHANGED <<entry, analyzeVars, commit_type, scope, summary, message,
                 args, git_codes, index, staged, diff_content, body, output>>

\* run.py main(), lines 192-195
NotARepoError ==
  /\ entry = "run" /\ pc = "args" /\ git(git_codes.rev_parse, "").code # 0
  /\ pc' = "exit2"
  /\ UNCHANGED <<entry, analyzeVars, commit_type, scope, summary, message, runVars>>

\* run.py main(), lines 192-193: the repository check passes
CheckRepo ==
  /\ entry = "run" /\ pc = "args" /\ git(git_codes.rev_parse, ".git\n").code = 0
  /\ pc' = "repo"
  /\ UNCHANGED <<entry, analyzeVars, commit_type, scope, summary, message, runVars>>

\* run.py main(), line 197: the index is read for the first time
GetStagedFiles ==
  /\ entry = "run" /\ pc = "repo"
  /\ staged' = get_staged_files(git(git_codes.name_status,
                                    Stdout(git_codes.name_status, NameStatus(index))))
  /\ pc' = "files"
  /\ UNCHANGED <<entry, analyzeVars, commit_type, scope, summary, message,
                 args, opts, git_codes, index, diff_content, body, output>>

\* run.py main(), lines 198-200
NoStagedError ==
  /\ entry = "run" /\ pc = "files" /\ staged = <<>>
  /\ pc' = "exit1"
  /\ UNCHANGED <<entry, analyzeVars, commit_type, scope, summary, message, runVars>>

\* another process stages a file while main() runs: between the repository
\* check and the first read of the index, or between the two reads
GitAdd ==
  /\ entry = "run" /\ pc \in {"repo", "files"}
  /\ \A i \in 1..Len(index) : index[i].path # ConcurrentEntry.path
  /\ index' = Append(index, ConcurrentEntry)
  /\ UNCHANGED <<entry, pc, analyzeVars, commit_type, scope, summary, message,
                 args, opts, git_codes, staged, diff_content, body, output>>

\* run.py main(), line 202: the index is read for the second time
GetDiffContent ==
  /\ entry = "run" /\ pc = "files" /\ staged # <<>>
  /\ diff_content' = get_diff_content(git(git_codes.diff,
                                          Stdout(git_codes.diff, GitDiff(index))))
  /\ pc' = "diffed"
  /\ UNCHANGED <<entry, analyzeVars, commit_type, scope, summary, message,
                 args, opts, git_codes, index, staged, body, output>>

\* run.py main(), line 203
RunDetectType ==
  /\ entry = "run" /\ pc = "diffed"
  /\ commit_type' = ChosenType(opts, staged, diff_content)
  /\ pc' = "typed"
  /\ UNCHANGED <<entry, analyzeVars, scope, summary, message, runVars>>

\* run.py main(), line 204
RunDetectScope ==
  /\ entry = "run" /\ pc = "typed"
  /\ scope' = ChosenScope(opts, staged)
  /\ pc' = "scoped"
  /\ UNCHANGED <<entry, analyzeVars, commit_type, summary, message, runVars>>

\* run.py main(), lines 205-227: subject, message, body and the printed result
GenerateSubject ==
  /\ entry = "run" /\ pc = "scoped"
  /\ summary' = generate_subject(staged, commit_type)
  /\ message' = RunFormatMessage(commit_type, scope, summary')
  /\ body' = IF opts.include_body THEN generate_body(staged) ELSE ""
  /\ output' = Printed(opts.fmt, commit_type, scope, summary', body', message')
  /\ pc' = "done"
  /\ UNCHANGED <<entry, analyzeVars, commit_type, scope,
                 args, opts, git_codes, index, staged, diff_content>>

Next ==
  \/ EmptyDiffError
  \/ ParseDiff
  \/ NoFilesError
  \/ DetectType
  \/ DetectScope
  \/ DetectSummary
  \/ ShowHelp
  \/ ParseArguments
  \/ NotARepoError
  \/ CheckRepo
  \/ GetStagedFiles
  \/ NoStagedError
  \/ GitAdd
  \/ GetDiffContent
  \/ RunDetectType
  \/ RunDetectScope
  \/ GenerateSubject

Spec == Init /\ [][Next]_vars

(***************************************************************************)
(* Properties                                                              *)
(***************************************************************************)
Analyze == entry \in {"main", "api"}

\* the enumeration order of the commit types
TypeOrder == <<"feat", "fix", "test", "docs", "chore", "style", "refactor", "perf">>

VotesFor(k) == IF k \in DOMAIN signals THEN signals[k] ELSE 0

\* C1: after per-file voting over a non-empty file sequence the type is the
\* signal with the highest vote count, the first in the order feat, fix, test,
\* docs, chore, style, refactor, perf among tied maxima; for an empty file
\* sequence the type is chore.
C1_WinnerIsFirstMaximum ==
  (Analyze /\ pc = "typed") =>
    IF files = <<>> THEN commit_type = "chore"
    ELSE \E i \in 1..Len(TypeOrder) :
           /\ commit_type = TypeOrder[i]
           /\ \A j \in 1..Len(TypeOrder) : VotesFor(TypeOrder[j]) <= VotesFor(TypeOrder[i])
           /\ \A j \in 1..(i - 1) : VotesFor(TypeOrder[j]) < VotesFor(TypeOrder[i])

\* a tie between fix and docs (docs voted first) is resolved for fix
C1_Witness ==
  /\ entry = "api" /\ pc = "typed" /\ Len(files) = 2
  /\ DOC_PATTERNS(files[1].new_path)
  /\ signals["docs"] = 1 /\ signals["fix"] = 1
  /\ commit_type = "fix"

\* the rule chain of per-file voting as ordered (condition, outcome) pairs
RuleChain(f) ==
  << <<TEST_PATTERNS(f.new_path), "test">>,
     <<DOC_PATTERNS(f.new_path), "docs">>,
     <<CHORE_PATTERNS(f.new_path), "chore">>,
     <<f.is_new, "feat">>,
     <<BUG_KEYWORDS(join("\n", f.added_lines)), "fix">>,
     <<is_style_only(f), "style">>,
     <<is_refactor(f), "refactor">>,
     <<\E i \in 1..Len(f.added_lines) : func_pattern(f.added_lines[i]), "feat">>,
     <<TRUE, "chore">> >>

FirstMatch(chain) == chain[SetMin({i \in 1..Len(chain) : chain[i][1]})][2]

\* the outcome of the rule chain for each file, in file order
RECURSIVE Outcomes(_)
Outcomes(fs) ==
  IF fs = <<>> THEN <<>> ELSE <<FirstMatch(RuleChain(Head(fs)))>> \o Outcomes(Tail(fs))

TallyIs(outcomes) ==
  \A k \in DOMAIN signals : signals[k] = Cardinality({i \in 1..Len(outcomes) : outcomes[i] = k})

RECURSIVE SumVotes(_)
SumVotes(keys) ==
  IF keys = {} THEN 0
  ELSE LET k == CHOOSE x \in keys : TRUE IN signals[k] + SumVotes(keys \ {k})

\* C2: every file increments exactly one signal, the outcome of the first rule
\* that matches in the order test-path, doc-path, chore-path, is-new,
\* bug-keyword, style-only, refactor-like, new-construct, fallback; so the vote
\* counts sum to the number of files.
C2_OneVotePerFile ==
  (Analyze /\ pc = "typed" /\ files # <<>>) =>
    /\ TallyIs(Outcomes(files))
    /\ SumVotes(DOMAIN signals) = Len(files)

\* three files voted, one of them a doc path whose added lines hold a bug keyword
C2_Witness ==
  /\ Analyze /\ pc = "typed" /\ Len(files) = 3
  /\ \E i \in 1..3 : /\ DOC_PATTERNS(files[i].new_path)
                      /\ BUG_KEYWORDS(join("\n", files[i].added_lines))
  /\ signals["docs"] = 1 /\ signals["fix"] = 0

\* C3: every FileChange record has isNew and isDeleted not both true.
C3_NewDeletedExclusive ==
  \A i \in 1..Len(files) : ~(files[i].is_new /\ files[i].is_deleted)

\* the only changed file is the modified root-level README.md
ReadmeOnlyFiles ==
  /\ Len(files) = 1 /\ files[1].new_path = "README.md"
  /\ ~files[1].is_new /\ ~files[1].is_deleted

\* run.py detects the type (no --type value overrides it)
TypeDetected == opts.override_type.value = ""

\* run.py detects the scope (no --scope value overrides it)
ScopeDetected == ~opts.override_scope.given

ReadmeOnlyStaged ==
  /\ Len(staged) = 1 /\ staged[1].path = "README.md" /\ staged[1].status = "M"
  /\ TypeDetected /\ ScopeDetected

\* C4 as stated: a diff touching only the modified README.md is classified as
\* type docs, scope the empty string, subject 'update README.md'.
C4_ReadmeScopeEmpty ==
  (pc = "done" /\ ((Analyze /\ ReadmeOnlyFiles) \/ (entry = "run" /\ ReadmeOnlyStaged))) =>
    (commit_type = "docs" /\ scope = "" /\ summary = "update README.md")

\* C4 amended: a diff touching only the modified README.md is classified as
\* type docs with subject 'update README.md'; the scope is 'readme' from
\* analyze.py and the empty string from run.py.
C4_ReadmeClassification ==
  /\ (Analyze /\ pc = "done" /\ ReadmeOnlyFiles) =>
       (commit_type = "docs" /\ scope = "readme" /\ summary = "update README.md"
        /\ message = "docs(readme): update README.md")
  /\ (entry = "run" /\ pc = "done" /\ ReadmeOnlyStaged) =>
       (commit_type = "docs" /\ scope = "" /\ summary = "update README.md"
        /\ message = "docs: update README.md")

\* analyze.py main() has classified a diff of README.md alone
C4_WitnessAnalyze ==
  /\ entry = "main" /\ pc = "done" /\ ReadmeOnlyFiles
  /\ files[1].added_lines # <<>>
  /\ scope = "readme"

\* run.py main() has classified a staged change of README.md alone, read from
\* the index through both git processes
C4_Witness ==
  /\ entry = "run" /\ pc = "done" /\ ReadmeOnlyStaged
  /\ contains(diff_content, "diff --git a/README.md b/README.md")
  /\ contains(diff_content, "\n+")
  /\ commit_type = "docs" /\ scope = ""
  /\ output = "docs: update README.md\n"

ChangedLines(f) == Len(f.added_lines) + Len(f.deleted_lines)

\* the first record, in input order, with the largest added+deleted count
FirstLargest(fs) ==
  SetMin({i \in 1..Len(fs) : \A j \in 1..Len(fs) : ChangedLines(fs[j]) <= ChangedLines(fs[i])})

\* C5: for a multi-file input whose scope candidates are not all identical, the
\* scope is the lowercased candidate of the file with the largest
\* added+deleted count, the first in input order among ties, also when a path
\* occurs in more than one record.
C5_ScopeOfLargestFile ==
  (Analyze /\ pc = "scoped" /\ Len(files) >= 2
     /\ Cardinality({Candidate(files[i].new_path) : i \in 1..Len(files)}) > 1) =>
    scope = lower(Candidate(files[FirstLargest(files)].new_path))

\* C5 restricted to inputs in which no path occurs twice
C5_ScopeOfLargestFileDistinctPaths ==
  (Analyze /\ pc = "scoped" /\ Len(files) >= 2
     /\ (\A a, b \in 1..Len(files) : files[a].new_path = files[b].new_path => a = b)
     /\ Cardinality({Candidate(files[i].new_path) : i \in 1..Len(files)}) > 1) =>
    scope = lower(Candidate(files[FirstLargest(files)].new_path))

\* "add N file(s)", "remove N file(s)", "update N file(s)", the zero ones left out
ClausesInOrder(nAdd, nRemove, nUpdate) ==
  join(", ", NonEmpty(<<IF nAdd > 0 THEN Clause("add", nAdd) ELSE "",
                        IF nRemove > 0 THEN Clause("remove", nRemove) ELSE "",
                        IF nUpdate > 0 THEN Clause("update", nUpdate) ELSE "">>))

\* C6: for a multi-file input whose type is neither docs nor test the subject
\* is the comma-joined list of the non-zero clauses in the order add, remove,
\* update, from detect_summary and from generate_subject alike.
C6_ClausesAddRemoveUpdate ==
  /\ (Analyze /\ pc = "done" /\ Len(files) >= 2 /\ commit_type \notin {"docs", "test"}) =>
       summary = ClausesInOrder(
                   Cardinality({i \in 1..Len(files) : files[i].is_new}),
                   Cardinality({i \in 1..Len(files) : files[i].is_deleted}),
                   Cardinality({i \in 1..Len(files) :
                                  ~files[i].is_new /\ ~files[i].is_deleted}))
  /\ (entry = "run" /\ pc = "done" /\ Len(staged) >= 2
         /\ commit_type \notin {"docs", "test"}) =>
       summary = ClausesInOrder(
                   Cardinality({i \in 1..Len(staged) : staged[i].status = "A"}),
                   Cardinality({i \in 1..Len(staged) : staged[i].status = "D"}),
                   Cardinality({i \in 1..Len(staged) : staged[i].status = "M"}))

\* the added (c = "+") or removed (c = "-") lines among ls: the lines that
\* start with c and not with three of them
Marked(ls, c) ==
  {i \in 1..Len(ls) : startswith(ls[i], c) /\ ~startswith(ls[i], c \o c \o c)}

MarkedLines(text, c) == Marked(splitlines(text), c)

NoKeyword(lowered) == \A kw \in FIX_KEYWORDS \cup PERF_KEYWORDS : ~contains(lowered, kw)

\* none of the rules before the line counts fires in the whole-diff detector
NoEarlierRule ==
  /\ \E i \in 1..Len(staged) : staged[i].status # "A"
  /\ \E i \in 1..Len(staged) :
       \A tp \in RUN_TEST_PATTERNS : ~contains(lower(staged[i].path), tp)
  /\ \E i \in 1..Len(staged) : lower(PathSuffix(staged[i].path)) \notin RUN_DOC_PATTERNS
  /\ \E i \in 1..Len(staged) : lower(PathSuffix(staged[i].path)) \notin CONFIG_PATTERNS
  /\ NoKeyword(lower(diff_content))

\* C7 as stated: when no earlier rule fires, the whole-diff type is refactor
\* exactly when removed - added > 5, and feat otherwise.
C7_RefactorByMargin ==
  (entry = "run" /\ pc = "typed" /\ TypeDetected /\ NoEarlierRule) =>
    LET byMargin(ls) ==
          IF Cardinality(Marked(ls, "-")) - Cardinality(Marked(ls, "+")) > 5
            THEN "refactor" ELSE "feat"
    IN commit_type = byMargin(splitlines(diff_content))

\* C7 amended: when no earlier rule fires, the whole-diff type is refactor
\* exactly when the removed line count exceeds the added line count and
\* exceeds 5, and feat otherwise.
C7_RefactorByCount ==
  (entry = "run" /\ pc = "typed" /\ TypeDetected /\ NoEarlierRule) =>
    LET byCount(ls) ==
          IF /\ Cardinality(Marked(ls, "-")) > Cardinality(Marked(ls, "+"))
             /\ Cardinality(Marked(ls, "-")) > 5
            THEN "refactor" ELSE "feat"
    IN commit_type = byCount(splitlines(diff_content))

\* six removed lines against one added line give refactor
C7_Witness ==
  /\ entry = "run" /\ pc = "typed" /\ TypeDetected /\ NoEarlierRule
  /\ Cardinality(MarkedLines(diff_content, "-")) = 6
  /\ Cardinality(MarkedLines(diff_content, "+")) = 1
  /\ commit_type = "refactor"

\* 'fix' stands in the line as a whole word, in any letter case
HasFixWord(line) ==
  \E i \in 1..(Len(line) - 2) :
    /\ lower(SubSeq(line, i, i + 2)) = "fix"
    /\ (i = 1 \/ Ch(line, i - 1) \notin WordCharSet)
    /\ (i + 3 > Len(line) \/ Ch(line, i + 3) \notin WordCharSet)

\* a single file that is not new, whose added lines hold the word fix
SingleFixFile ==
  /\ Len(files) = 1 /\ ~files[1].is_new
  /\ \E i \in 1..Len(files[1].added_lines) : HasFixWord(files[1].added_lines[i])

SingleFixStaged ==
  LET someAddedHasFix(ls) == \E i \in Marked(ls, "+") : HasFixWord(ls[i])
  IN /\ Len(staged) = 1 /\ staged[1].status # "A" /\ TypeDetected
     /\ someAddedHasFix(splitlines(diff_content))

RunTestPath(path) == \E tp \in RUN_TEST_PATTERNS : contains(lower(path), tp)

\* C8 as stated: a single-file diff whose file is not new and not on a test
\* path and whose added lines contain the whole word fix has type fix.
C8_FixUnlessNewOrTest ==
  /\ (Analyze /\ pc = "typed" /\ SingleFixFile /\ ~TEST_PATTERNS(files[1].new_path)) =>
       commit_type = "fix"
  /\ (entry = "run" /\ pc = "typed" /\ SingleFixStaged /\ ~RunTestPath(staged[1].path)) =>
       commit_type = "fix"

\* C8 amended: a single-file diff whose file is not new and not on a test, doc
\* or chore/config path of the detector in use, and whose added lines contain
\* the whole word fix, has type fix.
C8_FixUnlessEarlierRule ==
  /\ (Analyze /\ pc = "typed" /\ SingleFixFile
         /\ ~TEST_PATTERNS(files[1].new_path)
         /\ ~DOC_PATTERNS(files[1].new_path)
         /\ ~CHORE_PATTERNS(files[1].new_path)) =>
       commit_type = "fix"
  /\ (entry = "run" /\ pc = "typed" /\ SingleFixStaged
         /\ ~RunTestPath(staged[1].path)
         /\ lower(PathSuffix(staged[1].path)) \notin RUN_DOC_PATTERNS
         /\ lower(PathSuffix(staged[1].path)) \notin CONFIG_PATTERNS) =>
       commit_type = "fix"

\* analyze.py has typed a single modified source file with an added 'Fix'
C8_WitnessAnalyze ==
  /\ entry = "api" /\ pc = "typed" /\ SingleFixFile
  /\ files[1].new_path = "src/a.py"
  /\ commit_type = "fix"

\* run.py main() has typed a single staged source file whose diff adds 'fix'
C8_Witness ==
  /\ entry = "run" /\ pc = "typed" /\ SingleFixStaged
  /\ staged[1].path = "src/auth/a.py" /\ staged[1].status = "M"
  /\ commit_type = "fix"

\* the header lines of a diff text, in order
RECURSIVE HeaderLines(_)
HeaderLines(lines) ==
  IF lines = <<>> THEN <<>>
  ELSE (IF IsHeader(Head(lines)) THEN <<Head(lines)>> ELSE <<>>) \o HeaderLines(Tail(lines))

\* the lines from the first header on
RECURSIVE FromFirstHeader(_)
FromFirstHeader(lines) ==
  IF lines = <<>> \/ IsHeader(Head(lines)) THEN lines ELSE FromFirstHeader(Tail(lines))

\* C9: parseDiff returns exactly one FileChange per line matching
\* 'diff --git a/<old> b/<new>', in header order, and ignores every line
\* before the first header; a text with no header yields the empty sequence.
C9_OneRecordPerHeader ==
  (entry = "main" /\ pc = "parsed") =>
    LET onePerHeader(lines, heads) ==
          /\ Len(files) = Len(heads)
          /\ \A i \in 1..Len(files) :
               heads[i] = HeaderPrefix \o files[i].old_path \o " b/" \o files[i].new_path
          /\ files = ParseLines(<<>>, FromFirstHeader(lines))
        check(lines) == onePerHeader(lines, HeaderLines(lines))
    IN check(splitlines(raw))

\* two headers after a leading line that is no header
C9_Witness ==
  /\ entry = "main" /\ pc = "parsed" /\ Len(files) = 2
  /\ ~IsHeader(splitlines(raw)[1])
  /\ files[1].new_path # files[2].new_path

\* the file-marker line of a block: "--- a/<path>", "+++ b/<path>" or the
\* /dev/null form
IsFileMarker(l, c) ==
  \/ l = c \o c \o c \o " /dev/null"
  \/ startswith(l, c \o c \o c \o " " \o (IF c = "+" THEN "b/" ELSE "a/"))

\* the content of the lines that start with c inside file blocks, leaving out
\* only the file-marker lines
RECURSIVE ContentLines(_, _, _)
ContentLines(lines, c, inBlock) ==
  IF lines = <<>> THEN <<>>
  ELSE LET l == Head(lines) IN
    IF IsHeader(l) THEN ContentLines(Tail(lines), c, TRUE)
    ELSE IF inBlock /\ startswith(l, c) /\ ~IsFileMarker(l, c)
      THEN <<SubSeq(l, 2, Len(l))>> \o ContentLines(Tail(lines), c, TRUE)
    ELSE ContentLines(Tail(lines), c, inBlock)

RECURSIVE AllAdded(_)
AllAdded(fs) == IF fs = <<>> THEN <<>> ELSE Head(fs).added_lines \o AllAdded(Tail(fs))

RECURSIVE AllDeleted(_)
AllDeleted(fs) == IF fs = <<>> THEN <<>> ELSE Head(fs).deleted_lines \o AllDeleted(Tail(fs))

\* C10: within a file's block parseDiff records, in diff order and without the
\* leading sign, every '+' line except the '+++' file-marker line and every
\* '-' line except the '---' file-marker line; an added line whose content
\* begins with '++' or a removed line whose content begins with '--' is
\* still recorded.
C10_ContentLinesRecorded ==
  (entry = "main" /\ pc = "parsed") =>
    /\ AllAdded(files) = ContentLines(splitlines(raw), "+", FALSE)
    /\ AllDeleted(files) = ContentLines(splitlines(raw), "-", FALSE)

====
